---- MODULE Spec2Model ----
(***************************************************************************)
(* A model of pgtime (src/pgtime.c): the date validator, the comparator,   *)
(* the eight increment/decrement operations on a struct tm, and the UTC    *)
(* timestamp reconciler with the platform calendar engine it calls.        *)
(***************************************************************************)
EXTENDS Integers, Sequences, FiniteSets, TLC

VARIABLES
    d0,             \* the caller's copy of the record before any operation
    tm,             \* changing_tm: the record the operations mutate in place
    calls,          \* the operations applied so far, with the record before each
    arg_check_tm,   \* validate_date: the record under test
    verdict,        \* validate_date: what it returned and what it read
    arg_first,      \* tm_compare, tm_intraday_secs_diff: first argument
    arg_second,     \* tm_compare, tm_intraday_secs_diff: second argument
    compare_result, \* what tm_compare returned
    difference,     \* what tm_intraday_secs_diff returned
    plat,           \* the platform calendar engine get_utc_timestamp runs on
    utc_tm,         \* get_utc_timestamp: the requested record
    copy_tm,        \* get_utc_timestamp: its local copy, handed to mktime
    utc_ts,         \* get_utc_timestamp: the timestamp being reconciled
    secs_diff,      \* get_utc_timestamp: the last difference computed
    one_sec,        \* get_utc_timestamp: the calibrated one-second unit
    pc,             \* get_utc_timestamp: the state of the reconciliation
    log,            \* the platform calls made so far and what they answered
    active,         \* the invocation of an operation that is executing
    hops,           \* how often that call was handed to the opposite operation
    arg_check_time, \* check_utc_timestamp: the timestamp under test
    checked         \* check_utc_timestamp: what it returned and stored

arithVars == <<d0, tm, calls>>

validatorVars == <<arg_check_tm, verdict>>

comparatorVars == <<arg_first, arg_second, compare_result, difference>>

utcVars == <<plat, utc_tm, copy_tm, utc_ts, secs_diff, one_sec, pc, log>>

delegateVars == <<active, hops>>

checkVars == <<arg_check_time, checked>>

vars == <<d0, tm, calls, arg_check_tm, verdict, arg_first, arg_second,
          compare_result, difference, plat, utc_tm, copy_tm, utc_ts, secs_diff, one_sec, pc,
          log, active, hops, arg_check_time, checked>>

-----------------------------------------------------------------------------
(* C integer arithmetic: / and % truncate toward zero.                     *)

CDiv(a, b) == IF a >= 0 THEN a \div b ELSE -((-a) \div b)

CMod(a, b) == IF a >= 0 THEN a % b ELSE -((-a) % b)

(* struct tm, the six fields the library reads and writes.                 *)
Tm(y, mo, d, h, mi, s) ==
    [tm_year |-> y, tm_mon |-> mo, tm_mday |-> d,
     tm_hour |-> h, tm_min |-> mi, tm_sec |-> s]

-----------------------------------------------------------------------------
(* is_leap_year, pgtime.c:306-317                                          *)

is_leap_year(year) ==
    IF CMod(year, 4) = 0 /\ (CMod(year, 100) # 0 \/ CMod(year, 400) = 0)
    THEN TRUE
    ELSE FALSE

-----------------------------------------------------------------------------
(* validate_date, pgtime.c:26-44                                           *)

days_in_month == <<31, 28, 31, 30, 31, 30, 31, 31, 30, 31, 30, 31>>

(* The || chain short-circuits: the table is read only once the month has  *)
(* passed its range test and the day its lower test.                       *)
validate_date_reads(check_tm) ==
    IF check_tm.tm_year = -1900 THEN {}
    ELSE IF check_tm.tm_mon < 0 \/ check_tm.tm_mon > 11 THEN {}
    ELSE IF check_tm.tm_mday < 1 THEN {}
    ELSE {check_tm.tm_mon}

validate_date_sec60(check_tm) ==
    IF \/ check_tm.tm_year = -1900
       \/ (check_tm.tm_mon < 0 \/ check_tm.tm_mon > 11)
       \/ check_tm.tm_mday < 1
       \/ /\ check_tm.tm_mday > days_in_month[check_tm.tm_mon + 1]
          /\ ~(/\ check_tm.tm_mon = 1
               /\ check_tm.tm_mday = 29
               /\ is_leap_year(check_tm.tm_year + 1900))
       \/ (check_tm.tm_hour < 0 \/ check_tm.tm_hour > 23)
       \/ (check_tm.tm_min < 0 \/ check_tm.tm_min > 59)
       \/ (check_tm.tm_sec < 0 \/ check_tm.tm_sec > 60)
    THEN FALSE
    ELSE TRUE

validate_date(check_tm) ==
    IF \/ check_tm.tm_year = -1900
       \/ (check_tm.tm_mon < 0 \/ check_tm.tm_mon > 11)
       \/ check_tm.tm_mday < 1
       \/ /\ check_tm.tm_mday > days_in_month[check_tm.tm_mon + 1]
          /\ ~(/\ check_tm.tm_mon = 1
               /\ check_tm.tm_mday = 29
               /\ is_leap_year(check_tm.tm_year + 1900))
       \/ (check_tm.tm_hour < 0 \/ check_tm.tm_hour > 23)
       \/ (check_tm.tm_min < 0 \/ check_tm.tm_min > 59)
       \/ (check_tm.tm_sec < 0 \/ check_tm.tm_sec > 59)
    THEN FALSE
    ELSE TRUE

-----------------------------------------------------------------------------
(* tm_compare, pgtime.c:234-255                                            *)

tm_compare(first, second) ==
    IF first.tm_year # second.tm_year
    THEN (IF first.tm_year > second.tm_year THEN 1 ELSE -1)
    ELSE IF first.tm_mon # second.tm_mon
    THEN (IF first.tm_mon > second.tm_mon THEN 1 ELSE -1)
    ELSE IF first.tm_mday # second.tm_mday
    THEN (IF first.tm_mday > second.tm_mday THEN 1 ELSE -1)
    ELSE IF first.tm_hour # second.tm_hour
    THEN (IF first.tm_hour > second.tm_hour THEN 1 ELSE -1)
    ELSE IF first.tm_min # second.tm_min
    THEN (IF first.tm_min > second.tm_min THEN 1 ELSE -1)
    ELSE IF first.tm_sec # second.tm_sec
    THEN (IF first.tm_sec > second.tm_sec THEN 1 ELSE -1)
    ELSE 0

(* tm_intraday_secs_diff, pgtime.c:272-296                                 *)

secs_in_day == 86400

secs_in_hour == 3600

secs_in_min == 60

tm_intraday_secs_diff_nowrap(first, second) ==
    LET time_comp == tm_compare(first, second)
        raw == (second.tm_hour - first.tm_hour) * secs_in_hour
               + (second.tm_min - first.tm_min) * secs_in_min
               + (second.tm_sec - first.tm_sec)
    IN  IF time_comp = 0 THEN 0 ELSE raw

tm_intraday_secs_diff(first, second) ==
    LET time_comp == tm_compare(first, second)
        raw == (second.tm_hour - first.tm_hour) * secs_in_hour
               + (second.tm_min - first.tm_min) * secs_in_min
               + (second.tm_sec - first.tm_sec)
    IN  IF time_comp = 0 THEN 0
        ELSE IF time_comp = 1 /\ raw > 0 THEN raw - secs_in_day
        ELSE IF time_comp = -1 /\ raw < 0 THEN raw + secs_in_day
        ELSE raw

-----------------------------------------------------------------------------
(* The day walks, pgtime.c:339-391 and pgtime.c:527-574.  One step is one  *)
(* pass through the body of the while loop.                                *)

increment_day_step_no_skip(t) ==
    LET u == [t EXCEPT !.tm_mday = t.tm_mday + 1]
        roll == [u EXCEPT !.tm_mday = 1, !.tm_mon = u.tm_mon + 1]
    IN  IF u.tm_mon \in {0, 2, 4, 6, 7, 9}
        THEN (IF u.tm_mday > 31 THEN roll ELSE u)
        ELSE IF u.tm_mon = 11
        THEN (IF u.tm_mday > 31
              THEN [u EXCEPT !.tm_mday = 1, !.tm_mon = 0,
                             !.tm_year = u.tm_year + 1]
              ELSE u)
        ELSE IF u.tm_mon \in {3, 5, 8, 10}
        THEN (IF u.tm_mday > 30 THEN roll ELSE u)
        ELSE IF u.tm_mon = 1
        THEN (IF u.tm_mday > 29 THEN roll
              ELSE IF u.tm_mday > 28 /\ ~is_leap_year(u.tm_year) THEN roll
              ELSE u)
        ELSE u

increment_day_step(t) ==
    LET u == [t EXCEPT !.tm_mday = t.tm_mday + 1]
        roll == [u EXCEPT !.tm_mday = 1, !.tm_mon = u.tm_mon + 1]
    IN  IF u.tm_mon \in {0, 2, 4, 6, 7, 9}
        THEN (IF u.tm_mday > 31 THEN roll ELSE u)
        ELSE IF u.tm_mon = 11
        THEN (IF u.tm_mday > 31
              THEN [u EXCEPT !.tm_mday = 1, !.tm_mon = 0,
                             !.tm_year = IF u.tm_year = -1 THEN 1
                                         ELSE u.tm_year + 1]
              ELSE u)
        ELSE IF u.tm_mon \in {3, 5, 8, 10}
        THEN (IF u.tm_mday > 30 THEN roll ELSE u)
        ELSE IF u.tm_mon = 1
        THEN (IF u.tm_mday > 29 THEN roll
              ELSE IF u.tm_mday > 28 /\ ~is_leap_year(u.tm_year) THEN roll
              ELSE u)
        ELSE u  \* default: assert(false), compiled out under NDEBUG

decrement_day_step(t) ==
    IF t.tm_mday > 1
    THEN [t EXCEPT !.tm_mday = t.tm_mday - 1]
    ELSE IF t.tm_mon = 0
    THEN [t EXCEPT !.tm_mday = 31, !.tm_mon = 11,
                   !.tm_year = IF t.tm_year = 1 THEN -1 ELSE t.tm_year - 1]
    ELSE IF t.tm_mon \in {1, 3, 5, 7, 8, 10}
    THEN [t EXCEPT !.tm_mday = 31, !.tm_mon = t.tm_mon - 1]
    ELSE IF t.tm_mon \in {4, 6, 9, 11}
    THEN [t EXCEPT !.tm_mday = 30, !.tm_mon = t.tm_mon - 1]
    ELSE IF t.tm_mon = 2
    THEN [t EXCEPT !.tm_mday = IF is_leap_year(t.tm_year) THEN 29 ELSE 28,
                   !.tm_mon = t.tm_mon - 1]
    ELSE t  \* default: assert(false), compiled out under NDEBUG

(* num_days passes through the loop body.  The walk is split in halves and *)
(* each half is evaluated before the next starts, which keeps TLC's        *)
(* evaluation shallow and leaves the composition of the steps unchanged.   *)
Evaluated(v) == v = v

RECURSIVE increment_day_walk(_, _)
increment_day_walk(t, num_days) ==
    IF num_days = 0 THEN t
    ELSE IF num_days = 1 THEN increment_day_step(t)
    ELSE LET half == increment_day_walk(t, num_days \div 2)
         IN  IF Evaluated(half)
             THEN increment_day_walk(half, num_days - (num_days \div 2))
             ELSE half

RECURSIVE decrement_day_walk(_, _)
decrement_day_walk(t, num_days) ==
    IF num_days = 0 THEN t
    ELSE IF num_days = 1 THEN decrement_day_step(t)
    ELSE LET half == decrement_day_walk(t, num_days \div 2)
         IN  IF Evaluated(half)
             THEN decrement_day_walk(half, num_days - (num_days \div 2))
             ELSE half

(* tm_increment_day, pgtime.c:329-395; tm_decrement_day, pgtime.c:517-578  *)

RECURSIVE tm_increment_day(_, _)
RECURSIVE tm_decrement_day(_, _)

tm_increment_day(changing_tm, quantity) ==
    IF quantity < 0
    THEN tm_decrement_day(changing_tm, -quantity)
    ELSE increment_day_walk(changing_tm, quantity)

tm_decrement_day(changing_tm, quantity) ==
    IF quantity < 0
    THEN tm_increment_day(changing_tm, -quantity)
    ELSE decrement_day_walk(changing_tm, quantity)

-----------------------------------------------------------------------------
(* The hour, minute and second operations, pgtime.c:407-505 and 590-685.   *)

hours_in_day == 24

mins_in_hour == 60

RECURSIVE tm_increment_hour(_, _)
RECURSIVE tm_decrement_hour(_, _)
RECURSIVE tm_increment_minute(_, _)
RECURSIVE tm_decrement_minute(_, _)
RECURSIVE tm_increment_second(_, _)
RECURSIVE tm_decrement_second(_, _)

tm_increment_hour(changing_tm, quantity) ==
    IF quantity < 0
    THEN tm_decrement_hour(changing_tm, -quantity)
    ELSE
      IF \/ quantity >= hours_in_day
         \/ quantity >= hours_in_day - changing_tm.tm_hour
      THEN
        LET days0 == CDiv(quantity, hours_in_day)
            hours0 == quantity - days0 * hours_in_day
            carry == hours0 >= hours_in_day - changing_tm.tm_hour
            num_days == IF carry THEN days0 + 1 ELSE days0
            num_hours == IF carry
                         THEN hours0 - (hours_in_day - changing_tm.tm_hour)
                         ELSE hours0
            t1 == IF carry THEN [changing_tm EXCEPT !.tm_hour = num_hours]
                  ELSE changing_tm
            t2 == tm_increment_day(t1, num_days)
        IN  [t2 EXCEPT !.tm_hour = t2.tm_hour + num_hours]
      ELSE [changing_tm EXCEPT !.tm_hour = changing_tm.tm_hour + quantity]

tm_increment_minute(changing_tm, quantity) ==
    IF quantity < 0
    THEN tm_decrement_minute(changing_tm, -quantity)
    ELSE
      IF \/ quantity >= mins_in_hour
         \/ quantity >= mins_in_hour - changing_tm.tm_min
      THEN
        LET hours0 == CDiv(quantity, mins_in_hour)
            mins0 == quantity - hours0 * mins_in_hour
            carry == mins0 >= mins_in_hour - changing_tm.tm_min
            num_hours == IF carry THEN hours0 + 1 ELSE hours0
            num_mins == IF carry THEN 0 ELSE mins0
            t1 == IF carry
                  THEN [changing_tm EXCEPT
                          !.tm_min = changing_tm.tm_min + mins0 - mins_in_hour]
                  ELSE changing_tm
            t2 == tm_increment_hour(t1, num_hours)
        IN  [t2 EXCEPT !.tm_min = t2.tm_min + num_mins]
      ELSE [changing_tm EXCEPT !.tm_min = changing_tm.tm_min + quantity]

tm_increment_second(changing_tm, quantity) ==
    IF quantity < 0
    THEN tm_decrement_second(changing_tm, -quantity)
    ELSE
      IF \/ quantity >= secs_in_min
         \/ quantity >= secs_in_min - changing_tm.tm_sec
      THEN
        LET mins0 == CDiv(quantity, secs_in_min)
            secs0 == quantity - mins0 * secs_in_min
            carry == secs0 >= secs_in_min - changing_tm.tm_sec
            num_mins == IF carry THEN mins0 + 1 ELSE mins0
            num_secs == IF carry THEN 0 ELSE secs0
            t1 == IF carry
                  THEN [changing_tm EXCEPT
                          !.tm_sec = changing_tm.tm_sec + secs0 - secs_in_min]
                  ELSE changing_tm
            t2 == tm_increment_minute(t1, num_mins)
        IN  [t2 EXCEPT !.tm_sec = t2.tm_sec + num_secs]
      ELSE [changing_tm EXCEPT !.tm_sec = changing_tm.tm_sec + quantity]

tm_decrement_hour(changing_tm, quantity) ==
    IF quantity < 0
    THEN tm_increment_hour(changing_tm, -quantity)
    ELSE
      IF quantity >= hours_in_day \/ quantity > changing_tm.tm_hour
      THEN
        LET days0 == CDiv(quantity, hours_in_day)
            hours0 == quantity - days0 * hours_in_day
            borrow == hours0 > changing_tm.tm_hour
            num_days == IF borrow THEN days0 + 1 ELSE days0
            num_hours == IF borrow THEN hours0 - changing_tm.tm_hour
                         ELSE hours0
            t1 == IF borrow THEN [changing_tm EXCEPT !.tm_hour = hours_in_day]
                  ELSE changing_tm
            t2 == tm_decrement_day(t1, num_days)
        IN  [t2 EXCEPT !.tm_hour = t2.tm_hour - num_hours]
      ELSE [changing_tm EXCEPT !.tm_hour = changing_tm.tm_hour - quantity]

tm_decrement_minute(changing_tm, quantity) ==
    IF quantity < 0
    THEN tm_increment_minute(changing_tm, -quantity)
    ELSE
      IF quantity >= mins_in_hour \/ quantity > changing_tm.tm_min
      THEN
        LET hours0 == CDiv(quantity, mins_in_hour)
            mins0 == quantity - hours0 * mins_in_hour
            borrow == mins0 > changing_tm.tm_min
            num_hours == IF borrow THEN hours0 + 1 ELSE hours0
            num_mins == IF borrow THEN mins0 - changing_tm.tm_min ELSE mins0
            t1 == IF borrow THEN [changing_tm EXCEPT !.tm_min = mins_in_hour]
                  ELSE changing_tm
            t2 == tm_decrement_hour(t1, num_hours)
        IN  [t2 EXCEPT !.tm_min = t2.tm_min - num_mins]
      ELSE [changing_tm EXCEPT !.tm_min = changing_tm.tm_min - quantity]

tm_decrement_second(changing_tm, quantity) ==
    IF quantity < 0
    THEN tm_increment_second(changing_tm, -quantity)
    ELSE
      IF quantity >= secs_in_min \/ quantity > changing_tm.tm_sec
      THEN
        LET mins0 == CDiv(quantity, secs_in_min)
            secs0 == quantity - mins0 * secs_in_min
            borrow == secs0 > changing_tm.tm_sec
            num_mins == IF borrow THEN mins0 + 1 ELSE mins0
            num_secs == IF borrow THEN secs0 - changing_tm.tm_sec ELSE secs0
            t1 == IF borrow THEN [changing_tm EXCEPT !.tm_sec = secs_in_min]
                  ELSE changing_tm
            t2 == tm_decrement_minute(t1, num_mins)
        IN  [t2 EXCEPT !.tm_sec = t2.tm_sec - num_secs]
      ELSE [changing_tm EXCEPT !.tm_sec = changing_tm.tm_sec - quantity]

-----------------------------------------------------------------------------
(* The caller of the eight operations: it validates a record, keeps a copy *)
(* and applies operations to the record in place.                          *)

MaxCalls == 2

MaxQty == 1

(* Quantities past one carry: 50 hours, 90 minutes, 90 seconds.  The day   *)
(* walk takes up to MaxQty steps in either direction.                      *)
LargeQty(unit) ==
    IF unit = "hour" THEN {50}
    ELSE IF unit \in {"minute", "second"} THEN {90}
    ELSE (-MaxQty .. MaxQty)

Quantities(unit) == {-1, 0, 1} \cup LargeQty(unit)

StartYears == {-1, 0, 1, 100}

StartDates == {<<0, 1>>, <<1, 28>>, <<1, 29>>, <<2, 1>>, <<11, 31>>}

StartTimes == {<<0, 0, 0>>, <<23, 30, 0>>, <<23, 59, 59>>}

StartRecords ==
    {r \in {Tm(y, md[1], md[2], t[1], t[2], t[3]) :
                y \in StartYears, md \in StartDates, t \in StartTimes} :
        validate_date(r)}

(* Each component is exercised by a specification of its own; the others   *)
(* rest in these values meanwhile.                                         *)
NoTm == Tm(0, 0, 0, 0, 0, 0)

None == "none"

NoPlatform ==
    [offset |-> 0, shift |-> 0, jump |-> 0, mktime_ok |-> TRUE,
     calib_ok |-> TRUE]

ArithIdle == d0 = NoTm /\ tm = NoTm /\ calls = <<>>

ValidatorIdle == arg_check_tm = NoTm /\ verdict = <<>>

ComparatorIdle ==
    /\ arg_first = NoTm
    /\ arg_second = NoTm
    /\ compare_result = <<>>
    /\ difference = <<>>

UtcIdle ==
    /\ plat = NoPlatform
    /\ utc_tm = NoTm
    /\ copy_tm = NoTm
    /\ utc_ts = 0
    /\ secs_diff = 0
    /\ one_sec = 0
    /\ pc = None
    /\ log = <<>>

DelegateIdle == active = <<>> /\ hops = 0

CheckIdle == arg_check_time = 0 /\ checked = <<>>

Init ==
    /\ d0 \in StartRecords
    /\ tm = d0
    /\ calls = <<>>
    /\ ValidatorIdle
    /\ ComparatorIdle
    /\ UtcIdle
    /\ DelegateIdle
    /\ CheckIdle

(* One call of an operation: the record is mutated in place.               *)
Call(op, quantity, result) ==
    /\ Len(calls) < MaxCalls
    /\ tm' = result
    /\ calls' = Append(calls, [op |-> op, quantity |-> quantity, before |-> tm])
    /\ UNCHANGED <<d0, validatorVars, comparatorVars, utcVars, delegateVars,
                   checkVars>>

IncrementDay == \E q \in Quantities("day") :
    Call("increment_day", q, tm_increment_day(tm, q))

IncrementHour == \E q \in Quantities("hour") :
    Call("increment_hour", q, tm_increment_hour(tm, q))

IncrementMinute == \E q \in Quantities("minute") :
    Call("increment_minute", q, tm_increment_minute(tm, q))

IncrementSecond == \E q \in Quantities("second") :
    Call("increment_second", q, tm_increment_second(tm, q))

DecrementDay == \E q \in Quantities("day") :
    Call("decrement_day", q, tm_decrement_day(tm, q))

DecrementHour == \E q \in Quantities("hour") :
    Call("decrement_hour", q, tm_decrement_hour(tm, q))

DecrementMinute == \E q \in Quantities("minute") :
    Call("decrement_minute", q, tm_decrement_minute(tm, q))

DecrementSecond == \E q \in Quantities("second") :
    Call("decrement_second", q, tm_decrement_second(tm, q))

Next ==
    \/ IncrementDay
    \/ IncrementHour
    \/ IncrementMinute
    \/ IncrementSecond
    \/ DecrementDay
    \/ DecrementHour
    \/ DecrementMinute
    \/ DecrementSecond

Spec == Init /\ [][Next]_vars

-----------------------------------------------------------------------------
(* One call of an operation, invocation by invocation: an invocation with  *)
(* a negative quantity calls the opposite operation with -quantity, an     *)
(* invocation with any other quantity runs its else branch and returns.    *)
(* quantity is an int of 32 bits.                                          *)

INT_MIN == -2147483647 - 1

(* -quantity.  Negating INT_MIN overflows, which the language leaves       *)
(* undefined: the build either wraps to INT_MIN (two's complement neg) or  *)
(* traps (-ftrapv, a sanitizer).                                           *)
NegationOutcomes(quantity) ==
    IF quantity = INT_MIN
    THEN {[traps |-> FALSE, value |-> INT_MIN], [traps |-> TRUE, value |-> 0]}
    ELSE {[traps |-> FALSE, value |-> -quantity]}

Operations ==
    {"increment_day", "increment_hour", "increment_minute", "increment_second",
     "decrement_day", "decrement_hour", "decrement_minute", "decrement_second"}

Opposite(op) ==
    CASE op = "increment_day" -> "decrement_day"
      [] op = "increment_hour" -> "decrement_hour"
      [] op = "increment_minute" -> "decrement_minute"
      [] op = "increment_second" -> "decrement_second"
      [] op = "decrement_day" -> "increment_day"
      [] op = "decrement_hour" -> "increment_hour"
      [] op = "decrement_minute" -> "increment_minute"
      [] op = "decrement_second" -> "increment_second"

Apply(op, changing_tm, quantity) ==
    CASE op = "increment_day" -> tm_increment_day(changing_tm, quantity)
      [] op = "increment_hour" -> tm_increment_hour(changing_tm, quantity)
      [] op = "increment_minute" -> tm_increment_minute(changing_tm, quantity)
      [] op = "increment_second" -> tm_increment_second(changing_tm, quantity)
      [] op = "decrement_day" -> tm_decrement_day(changing_tm, quantity)
      [] op = "decrement_hour" -> tm_decrement_hour(changing_tm, quantity)
      [] op = "decrement_minute" -> tm_decrement_minute(changing_tm, quantity)
      [] op = "decrement_second" -> tm_decrement_second(changing_tm, quantity)

MaxHops == 3

CallQuantities == {INT_MIN, -90, -1, 0, 1, 90}

InitDelegate ==
    /\ d0 \in StartRecords
    /\ tm = d0
    /\ calls = <<>>
    /\ active \in {<<[op |-> op, quantity |-> q]>> :
                       op \in Operations, q \in CallQuantities}
    /\ hops = 0
    /\ ValidatorIdle
    /\ ComparatorIdle
    /\ UtcIdle
    /\ CheckIdle

DelegateFrame ==
    UNCHANGED <<d0, validatorVars, comparatorVars, utcVars, checkVars>>

(* if ( quantity < 0 ) opposite(changing_tm, -quantity);                   *)
Delegate ==
    /\ active # <<>>
    /\ active[1].quantity < 0
    /\ hops < MaxHops
    /\ \E o \in NegationOutcomes(active[1].quantity) :
         IF o.traps
         THEN /\ active' = <<>>
              /\ calls' = Append(calls, [op |-> "trap",
                                         quantity |-> active[1].quantity,
                                         before |-> tm])
              /\ UNCHANGED hops
         ELSE /\ active' = <<[op |-> Opposite(active[1].op),
                              quantity |-> o.value]>>
              /\ hops' = hops + 1
              /\ UNCHANGED calls
    /\ UNCHANGED tm
    /\ DelegateFrame

(* else { ... }: the branch for a quantity that is not negative; every     *)
(* invocation on the stack then returns changing_tm.                       *)
RunBranch ==
    /\ active # <<>>
    /\ active[1].quantity >= 0
    /\ tm' = Apply(active[1].op, tm, active[1].quantity)
    /\ calls' = Append(calls, [op |-> active[1].op,
                               quantity |-> active[1].quantity,
                               before |-> tm])
    /\ active' = <<>>
    /\ UNCHANGED hops
    /\ DelegateFrame

NextDelegate ==
    \/ Delegate
    \/ RunBranch

SpecDelegate == InitDelegate /\ [][NextDelegate]_vars

-----------------------------------------------------------------------------
(* validate_date on records in and around the range of every field.        *)

Margin == 1

Around(lo, hi) == ((lo - Margin) .. (lo + Margin)) \cup ((hi - Margin) .. (hi + Margin))

CheckYears == {-1900, -1, 0, 4, 100}

CheckRecords ==
    {Tm(y, mo, d, h, mi, s) :
        y \in CheckYears, mo \in Around(0, 11) \cup {3},
        d \in Around(1, 31) \cup {28, 29}, h \in Around(0, 23),
        mi \in {-1, 0, 59, 60}, s \in {-1, 0, 59, 60}}

InitValidate ==
    /\ arg_check_tm \in CheckRecords
    /\ verdict = <<>>
    /\ ArithIdle
    /\ ComparatorIdle
    /\ UtcIdle
    /\ DelegateIdle
    /\ CheckIdle

(* The record is passed as a pointer to const: the call leaves it alone.   *)
ValidateDate ==
    /\ verdict = <<>>
    /\ verdict' = <<[result |-> validate_date(arg_check_tm),
                     reads |-> validate_date_reads(arg_check_tm)]>>
    /\ UNCHANGED <<arg_check_tm, arithVars, comparatorVars, utcVars,
                   delegateVars, checkVars>>

NextValidate == ValidateDate

SpecValidate == InitValidate /\ [][NextValidate]_vars

-----------------------------------------------------------------------------
(* tm_compare and tm_intraday_secs_diff on pairs of valid records on the   *)
(* same day, on adjacent days across a month and a year end, and further   *)
(* apart.                                                                  *)

PairYears == {99, 100}

PairDates == {<<11, 31>>, <<0, 1>>, <<1, 28>>, <<1, 29>>, <<2, 1>>}

PairTimes == {<<0, 0, 0>>, <<1, 0, 0>>, <<10, 0, 0>>, <<23, 0, 0>>, <<23, 59, 59>>}

PairRecords ==
    {r \in {Tm(y, md[1], md[2], t[1], t[2], t[3]) :
                y \in PairYears, md \in PairDates, t \in PairTimes} :
        validate_date(r)}

InitCompare ==
    /\ arg_first \in PairRecords
    /\ arg_second \in PairRecords
    /\ compare_result = <<>>
    /\ difference = <<>>
    /\ ArithIdle
    /\ ValidatorIdle
    /\ UtcIdle
    /\ DelegateIdle
    /\ CheckIdle

TmCompare ==
    /\ compare_result = <<>>
    /\ compare_result' = <<tm_compare(arg_first, arg_second)>>
    /\ UNCHANGED <<arg_first, arg_second, difference,
                   arithVars, validatorVars, utcVars, delegateVars, checkVars>>

TmIntradaySecsDiff ==
    /\ difference = <<>>
    /\ difference' = <<tm_intraday_secs_diff(arg_first, arg_second)>>
    /\ UNCHANGED <<arg_first, arg_second, compare_result,
                   arithVars, validatorVars, utcVars, delegateVars, checkVars>>

NextCompare ==
    \/ TmCompare
    \/ TmIntradaySecsDiff

SpecCompare == InitCompare /\ [][NextCompare]_vars

-----------------------------------------------------------------------------
(* The platform calendar engine behind mktime and gmtime.  Timestamps      *)
(* count seconds from 1970-01-01 00:00:00 UTC.  A platform has a local-time*)
(* offset, may rewrite the record mktime is given (a daylight-saving hint  *)
(* that does not match, a local time that does not exist), and may count   *)
(* seconds that no UTC civil time of 60-second minutes has (leap seconds): *)
(* plat.jump of them, inserted after LeapAt.                               *)

LeapsUpTo(y) == (y \div 4) - (y \div 100) + (y \div 400)

DaysBeforeYear(tm_year) ==
    LET y == tm_year + 1900
    IN  365 * (y - 1970) + LeapsUpTo(y - 1) - LeapsUpTo(1969)

EngineLeap(tm_year) ==
    LET y == tm_year + 1900
    IN  y % 4 = 0 /\ (y % 100 # 0 \/ y % 400 = 0)

EngineMonthLen(tm_year, mon) ==
    IF mon = 1 THEN (IF EngineLeap(tm_year) THEN 29 ELSE 28)
    ELSE IF mon \in {3, 5, 8, 10} THEN 30
    ELSE 31

RECURSIVE DaysBeforeMonth(_, _)
DaysBeforeMonth(tm_year, mon) ==
    IF mon = 0 THEN 0
    ELSE DaysBeforeMonth(tm_year, mon - 1) + EngineMonthLen(tm_year, mon - 1)

(* timegm: the seconds of a civil record, every day 86400 seconds long.    *)
TimeGm(r) ==
    (DaysBeforeYear(r.tm_year) + DaysBeforeMonth(r.tm_year, r.tm_mon)
        + (r.tm_mday - 1)) * secs_in_day
    + r.tm_hour * secs_in_hour + r.tm_min * secs_in_min + r.tm_sec

EngineYears == {30} \cup (98 .. 102)

(* The civil record of a count of seconds: the inverse of TimeGm.  The day, *)
(* the year and the month are found in turn.                               *)
CivilInYear(y, doy, sod) ==
    CHOOSE t \in {Tm(y, mo, doy - DaysBeforeMonth(y, mo) + 1,
                     sod \div secs_in_hour,
                     (sod % secs_in_hour) \div secs_in_min,
                     sod % secs_in_min) :
                     mo \in {m \in 0 .. 11 :
                                /\ DaysBeforeMonth(y, m) <= doy
                                /\ doy < DaysBeforeMonth(y, m + 1)}} : TRUE

CivilOnDay(day, sod) ==
    CHOOSE t \in {CivilInYear(y, day - DaysBeforeYear(y), sod) :
                     y \in {yy \in EngineYears :
                               /\ DaysBeforeYear(yy) <= day
                               /\ day < DaysBeforeYear(yy + 1)}} : TRUE

CivilOf(c) ==
    CHOOSE t \in {CivilOnDay(n \div secs_in_day, n % secs_in_day) :
                     n \in {c}} : TRUE

LeapAt == TimeGm(Tm(99, 11, 31, 23, 59, 59))

(* The timestamp of a UTC civil second on platform p.                      *)
Ticks(p, c) == IF c > LeapAt THEN c + p.jump ELSE c

(* gmtime: the inserted seconds read 23:59:60, 23:59:61, ...               *)
Gmtime(p, ts) ==
    IF ts <= LeapAt THEN CivilOf(ts)
    ELSE IF ts <= LeapAt + p.jump
    THEN [CivilOf(LeapAt) EXCEPT !.tm_sec = 59 + (ts - LeapAt)]
    ELSE CivilOf(ts - p.jump)

(* mktime: reads the record as local time, rewrites it by `shift` seconds  *)
(* and returns the timestamp, or -1 when it cannot represent the time.     *)
Mktime(p, r, shift, accepts) ==
    IF ~accepts THEN [ts |-> -1, tm |-> r]
    ELSE LET local == TimeGm(r) + shift
         IN  [ts |-> Ticks(p, local - p.offset), tm |-> CivilOf(local)]

MaxTzHours == 1

MaxJump == 2

TzOffsets == {h * secs_in_hour : h \in -MaxTzHours .. MaxTzHours}

DstShifts == {-secs_in_hour, 0, secs_in_hour}

Platforms ==
    [offset : TzOffsets, shift : DstShifts, jump : 0 .. MaxJump,
     mktime_ok : BOOLEAN, calib_ok : BOOLEAN]

-----------------------------------------------------------------------------
(* get_sec_diff, pgtime.c:192-220: fails (exit) or returns the difference  *)
(* of two timestamps one second apart.  tm_isdst is -1, so the engine      *)
(* rewrites nothing.                                                       *)

Failed == [ok |-> FALSE, value |-> 0]

Returned(v) == [ok |-> TRUE, value |-> v]

get_sec_diff(p) ==
    LET datum_day == Tm(30, 0, 2, 12, 0, 0)
        m1 == Mktime(p, datum_day, 0, p.calib_ok)
        next_sec == [m1.tm EXCEPT !.tm_sec = m1.tm.tm_sec + 1]
        m2 == Mktime(p, next_sec, 0, p.calib_ok)
    IN  IF m1.ts = -1 THEN Failed
        ELSE IF m2.ts = -1 THEN Failed
        ELSE Returned(m2.ts - m1.ts)

(* get_utc_timestamp_sec_diff, pgtime.c:757-774: fails (exit) when gmtime  *)
(* returns a null pointer.                                                 *)
get_utc_timestamp_sec_diff(p, check_time, want_tm, gmtime_ok) ==
    IF ~gmtime_ok THEN Failed
    ELSE Returned(tm_intraday_secs_diff(want_tm, Gmtime(p, check_time)))

-----------------------------------------------------------------------------
(* get_utc_timestamp, pgtime.c:694-739, one action per state of the        *)
(* reconciliation.                                                         *)

UtcRequests ==
    {Tm(99, 11, 31, 23, 30, 0), Tm(99, 11, 31, 23, 59, 59),
     Tm(100, 0, 1, 0, 0, 0), Tm(100, 0, 1, 0, 30, 0),
     Tm(100, 1, 29, 12, 0, 0)}

InitUtc ==
    /\ plat \in Platforms
    /\ utc_tm \in UtcRequests
    /\ copy_tm = utc_tm
    /\ utc_ts = 0
    /\ secs_diff = 0
    /\ one_sec = 0
    /\ pc = "INITIAL_CONVERT"
    /\ log = <<>>
    /\ ArithIdle
    /\ ValidatorIdle
    /\ ComparatorIdle
    /\ DelegateIdle
    /\ CheckIdle

Logged(call, arg, answer) == Append(log, [call |-> call, arg |-> arg, answer |-> answer])

UtcFrame ==
    UNCHANGED <<plat, utc_tm, arithVars, validatorVars, comparatorVars,
                delegateVars, checkVars>>

(* pgtime.c:700-706 *)
InitialConvert ==
    /\ pc = "INITIAL_CONVERT"
    /\ LET m == Mktime(plat, copy_tm, plat.shift, plat.mktime_ok)
       IN  /\ log' = Logged("mktime", 0,
                            IF m.ts = -1 THEN Failed ELSE Returned(m.ts))
           /\ copy_tm' = m.tm
           /\ IF m.ts = -1
              THEN pc' = "FATAL" /\ UNCHANGED utc_ts
              ELSE pc' = "VERIFY" /\ utc_ts' = m.ts
    /\ UNCHANGED <<secs_diff, one_sec>>
    /\ UtcFrame

(* pgtime.c:710-714 *)
Verify ==
    /\ pc = "VERIFY"
    /\ \E gmtime_ok \in BOOLEAN :
         LET d == get_utc_timestamp_sec_diff(plat, utc_ts, copy_tm, gmtime_ok)
         IN  /\ log' = Logged("gmtime", utc_ts, d)
             /\ IF ~d.ok
                THEN pc' = "FATAL" /\ UNCHANGED secs_diff
                ELSE /\ secs_diff' = d.value
                     /\ pc' = IF d.value # 0 THEN "CORRECT_BY_DIFF"
                              ELSE "SUCCESS"
    /\ UNCHANGED <<copy_tm, utc_ts, one_sec>>
    /\ UtcFrame

(* pgtime.c:715-716 *)
CorrectByDiff ==
    /\ pc = "CORRECT_BY_DIFF"
    /\ LET unit == get_sec_diff(plat)
       IN  /\ log' = Logged("get_sec_diff", 0, unit)
           /\ IF ~unit.ok
              THEN pc' = "FATAL" /\ UNCHANGED <<one_sec, utc_ts>>
              ELSE /\ one_sec' = unit.value
                   /\ utc_ts' = utc_ts - unit.value * secs_diff
                   /\ pc' = "VERIFY2"
    /\ UNCHANGED <<copy_tm, secs_diff>>
    /\ UtcFrame

Verify2_gives_up ==
    /\ pc = "VERIFY2"
    /\ \E gmtime_ok \in BOOLEAN :
         LET d == get_utc_timestamp_sec_diff(plat, utc_ts, copy_tm, gmtime_ok)
         IN  /\ log' = Logged("gmtime", utc_ts, d)
             /\ IF ~d.ok
                THEN pc' = "FATAL" /\ UNCHANGED secs_diff
                ELSE /\ secs_diff' = d.value
                     /\ pc' = IF d.value # 0 THEN "FATAL" ELSE "SUCCESS"
    /\ UNCHANGED <<copy_tm, utc_ts, one_sec>>
    /\ UtcFrame

(* pgtime.c:718-720 *)
Verify2 ==
    /\ pc = "VERIFY2"
    /\ \E gmtime_ok \in BOOLEAN :
         LET d == get_utc_timestamp_sec_diff(plat, utc_ts, copy_tm, gmtime_ok)
         IN  /\ log' = Logged("gmtime", utc_ts, d)
             /\ IF ~d.ok
                THEN pc' = "FATAL" /\ UNCHANGED secs_diff
                ELSE /\ secs_diff' = d.value
                     /\ pc' = IF d.value # 0 THEN "PROBE_NEIGHBORS"
                              ELSE "SUCCESS"
    /\ UNCHANGED <<copy_tm, utc_ts, one_sec>>
    /\ UtcFrame

ProbePlus_probes_minus ==
    /\ pc = "PROBE_NEIGHBORS"
    /\ \E gmtime_ok \in BOOLEAN :
         LET d == get_utc_timestamp_sec_diff(plat, utc_ts - one_sec, copy_tm,
                                             gmtime_ok)
         IN  /\ log' = Logged("gmtime", utc_ts - one_sec, d)
             /\ IF ~d.ok
                THEN pc' = "FATAL" /\ UNCHANGED utc_ts
                ELSE IF d.value = 0
                THEN pc' = "SUCCESS" /\ utc_ts' = utc_ts - one_sec
                ELSE pc' = "PROBE_MINUS" /\ UNCHANGED utc_ts
    /\ UNCHANGED <<copy_tm, secs_diff, one_sec>>
    /\ UtcFrame

(* pgtime.c:725-726 *)
ProbePlus ==
    /\ pc = "PROBE_NEIGHBORS"
    /\ \E gmtime_ok \in BOOLEAN :
         LET d == get_utc_timestamp_sec_diff(plat, utc_ts + one_sec, copy_tm,
                                             gmtime_ok)
         IN  /\ log' = Logged("gmtime", utc_ts + one_sec, d)
             /\ IF ~d.ok
                THEN pc' = "FATAL" /\ UNCHANGED utc_ts
                ELSE IF d.value = 0
                THEN pc' = "SUCCESS" /\ utc_ts' = utc_ts + one_sec
                ELSE pc' = "PROBE_MINUS" /\ UNCHANGED utc_ts
    /\ UNCHANGED <<copy_tm, secs_diff, one_sec>>
    /\ UtcFrame

(* pgtime.c:727-734 *)
ProbeMinus ==
    /\ pc = "PROBE_MINUS"
    /\ \E gmtime_ok \in BOOLEAN :
         LET d == get_utc_timestamp_sec_diff(plat, utc_ts - one_sec, copy_tm,
                                             gmtime_ok)
         IN  /\ log' = Logged("gmtime", utc_ts - one_sec, d)
             /\ IF ~d.ok
                THEN pc' = "FATAL" /\ UNCHANGED utc_ts
                ELSE IF d.value = 0
                THEN pc' = "SUCCESS" /\ utc_ts' = utc_ts - one_sec
                ELSE pc' = "FATAL" /\ UNCHANGED utc_ts
    /\ UNCHANGED <<copy_tm, secs_diff, one_sec>>
    /\ UtcFrame

NextUtc ==
    \/ InitialConvert
    \/ Verify
    \/ CorrectByDiff
    \/ Verify2
    \/ ProbePlus
    \/ ProbeMinus

SpecUtc == InitUtc /\ [][NextUtc]_vars

-----------------------------------------------------------------------------
(* check_utc_timestamp, pgtime.c:65-85: exits when gmtime returns a null   *)
(* pointer, else returns agrees and stores *secs_diff.                     *)

check_utc_timestamp(p, check_time, check_tm, gmtime_ok) ==
    IF ~gmtime_ok THEN [ok |-> FALSE, agrees |-> FALSE, secs_diff |-> 0]
    ELSE LET compare_tm == Gmtime(p, check_time)
             agrees == IF tm_compare(check_tm, compare_tm) # 0 THEN FALSE
                        ELSE TRUE
         IN  [ok |-> TRUE,
              agrees |-> agrees,
              secs_diff |-> IF agrees THEN 0
                            ELSE tm_intraday_secs_diff(check_tm, compare_tm)]

(* Timestamps at and around the expected record: a second and a day to     *)
(* either side.                                                            *)
CheckOffsets == {-secs_in_day, -1, 0, 1, secs_in_day}

InitCheck ==
    /\ plat \in {p \in Platforms :
                    p.offset = 0 /\ p.shift = 0 /\ p.mktime_ok /\ p.calib_ok}
    /\ arg_check_tm \in UtcRequests
    /\ arg_check_time \in {Ticks(plat, TimeGm(r) + o) :
                               r \in UtcRequests, o \in CheckOffsets}
    /\ checked = <<>>
    /\ verdict = <<>>
    /\ utc_tm = NoTm
    /\ copy_tm = NoTm
    /\ utc_ts = 0
    /\ secs_diff = 0
    /\ one_sec = 0
    /\ pc = None
    /\ log = <<>>
    /\ ArithIdle
    /\ ComparatorIdle
    /\ DelegateIdle

CheckUtcTimestamp ==
    /\ checked = <<>>
    /\ \E gmtime_ok \in BOOLEAN :
         checked' = <<check_utc_timestamp(plat, arg_check_time, arg_check_tm,
                                          gmtime_ok)>>
    /\ UNCHANGED <<arg_check_time, validatorVars, arithVars, comparatorVars,
                   utcVars, delegateVars>>

NextCheck == CheckUtcTimestamp

SpecCheck == InitCheck /\ [][NextCheck]_vars

-----------------------------------------------------------------------------
(* The proleptic Gregorian calendar the claims are measured against: the   *)
(* calendar year is tm_year + 1900 and every year number exists.           *)

GregLeap(t) ==
    LET y == t.tm_year + 1900
    IN  y % 4 = 0 /\ (y % 100 # 0 \/ y % 400 = 0)

GregMonthLen(t) ==
    IF t.tm_mon = 1 THEN (IF GregLeap(t) THEN 29 ELSE 28)
    ELSE IF t.tm_mon \in {3, 5, 8, 10} THEN 30
    ELSE 31

GregNextDay(t) ==
    IF t.tm_mday < GregMonthLen(t) THEN [t EXCEPT !.tm_mday = t.tm_mday + 1]
    ELSE IF t.tm_mon < 11 THEN [t EXCEPT !.tm_mday = 1, !.tm_mon = t.tm_mon + 1]
    ELSE [t EXCEPT !.tm_mday = 1, !.tm_mon = 0, !.tm_year = t.tm_year + 1]

GregPrevDay(t) ==
    IF t.tm_mday > 1 THEN [t EXCEPT !.tm_mday = t.tm_mday - 1]
    ELSE LET p == IF t.tm_mon > 0 THEN [t EXCEPT !.tm_mon = t.tm_mon - 1]
                  ELSE [t EXCEPT !.tm_mon = 11, !.tm_year = t.tm_year - 1]
         IN  [p EXCEPT !.tm_mday = GregMonthLen(p)]

RECURSIVE GregSubDays(_, _)
GregSubDays(t, n) ==
    IF n = 0 THEN t
    ELSE LET s == GregPrevDay(t)
         IN  IF Evaluated(s) THEN GregSubDays(s, n - 1) ELSE s

(* The same next-day rule under the year numbering of the library, which   *)
(* has no tm_year 0 between -1 and 1: only the year step differs.          *)
ElidedNextDay(t) ==
    LET g == GregNextDay(t)
    IN  IF t.tm_year = -1 /\ g.tm_year = 0 THEN [g EXCEPT !.tm_year = 1]
        ELSE g

RECURSIVE ElidedAddDays(_, _)
ElidedAddDays(t, n) ==
    IF n = 0 THEN t
    ELSE LET s == ElidedNextDay(t)
         IN  IF Evaluated(s) THEN ElidedAddDays(s, n - 1) ELSE s

(* t plus n hours, n minutes: the hour and minute fields modulo 24 and 60, *)
(* the whole days carried into the date.                                   *)
ElidedAddHours(t, n) ==
    LET total == t.tm_hour + n
    IN  [ElidedAddDays(t, total \div 24) EXCEPT !.tm_hour = total % 24]

ElidedAddMinutes(t, n) ==
    LET total == t.tm_min + n
    IN  [ElidedAddHours(t, total \div 60) EXCEPT !.tm_min = total % 60]

(* The record a call left behind, and the calls of the history.            *)
After(i) == IF i = Len(calls) THEN tm ELSE calls[i + 1].before

CallIndexes == 1 .. Len(calls)

Unit(op) ==
    IF op \in {"increment_day", "decrement_day"} THEN "day"
    ELSE IF op \in {"increment_hour", "decrement_hour"} THEN "hour"
    ELSE IF op \in {"increment_minute", "decrement_minute"} THEN "minute"
    ELSE "second"

IsIncrement(op) ==
    op \in {"increment_day", "increment_hour",
            "increment_minute", "increment_second"}

(* An increment by n directly followed by the decrement of the same unit   *)
(* by the same n, from a record the Validator accepts.                     *)
RoundTripAt(i) ==
    /\ i + 1 \in CallIndexes
    /\ validate_date(calls[i].before)
    /\ calls[i].quantity # 0
    /\ IsIncrement(calls[i].op)
    /\ ~IsIncrement(calls[i + 1].op)
    /\ Unit(calls[i].op) = Unit(calls[i + 1].op)
    /\ calls[i].quantity = calls[i + 1].quantity

\* C1: incrementing a valid record by a nonzero n and then decrementing it by
\* n in the same unit returns a record that compares EQUAL to the original.
C1_RoundTrip ==
    \A i \in CallIndexes :
        RoundTripAt(i) => tm_compare(After(i + 1), calls[i].before) = 0

\* C2: tm_increment_minute by n >= 0 on a valid record yields the date-time
\* exactly n minutes later: minute (m + n) mod 60, floor((m + n) / 60) hours
\* carried into the hour and day fields (23:30:00 plus 90 minutes is 01:00:00
\* of the next day).
C2_MinuteIncrement ==
    \A i \in CallIndexes :
        (/\ calls[i].op = "increment_minute"
         /\ calls[i].quantity >= 0
         /\ validate_date(calls[i].before))
        => After(i) = ElidedAddMinutes(calls[i].before, calls[i].quantity)

\* C3: tm_increment_hour by n >= 0 on a valid record with hour h leaves the
\* hour (h + n) mod 24 and advances the date by exactly floor((h + n) / 24)
\* days.
C3_HourIncrement ==
    \A i \in CallIndexes :
        (/\ calls[i].op = "increment_hour"
         /\ calls[i].quantity >= 0
         /\ validate_date(calls[i].before))
        => After(i) = ElidedAddHours(calls[i].before, calls[i].quantity)

\* C4: tm_increment_day by n >= 0 on a valid record equals n applications of
\* the Gregorian next-day rule, February having 29 days exactly when
\* is_leap_year(tm_year + 1900) holds, the decision validate_date makes.
\* The year step is taken in the library's year numbering, so that only the
\* month lengths are in question.
C4_DayIncrement ==
    \A i \in CallIndexes :
        (/\ calls[i].op = "increment_day"
         /\ calls[i].quantity >= 0
         /\ validate_date(calls[i].before))
        => After(i) = ElidedAddDays(calls[i].before, calls[i].quantity)

\* C10: tm_decrement_day by n >= 0 on a valid record equals n applications of
\* the Gregorian previous-day rule: on day underflow the day becomes the
\* length of the previous month, February 29 exactly when
\* is_leap_year(tm_year + 1900) holds, and the calendar year decreases by
\* exactly one when stepping back from January 1.
C10_DayDecrement ==
    \A i \in CallIndexes :
        (/\ calls[i].op = "decrement_day"
         /\ calls[i].quantity >= 0
         /\ validate_date(calls[i].before))
        => After(i) = GregSubDays(calls[i].before, calls[i].quantity)

-----------------------------------------------------------------------------
(* The year numbering of the day walks.                                    *)

YearAfterNewYear(y) == IF y = -1 THEN 1 ELSE y + 1

YearBeforeNewYear(y) == IF y = 1 THEN -1 ELSE y - 1

\* C11: tm_increment_day stepping from December 31 to January 1 adds exactly
\* 1 to tm_year, except that -1 goes to 1; tm_decrement_day stepping from
\* January 1 to December 31 subtracts exactly 1, except that 1 goes to -1;
\* and from a record whose tm_year is not 0, no sequence of the eight
\* operations produces a record whose tm_year is 0.
C11_YearZeroSkip ==
    /\ \A i \in CallIndexes :
          LET b == calls[i].before
          IN  /\ (/\ calls[i].op = "increment_day" /\ calls[i].quantity = 1
                  /\ b.tm_mon = 11 /\ b.tm_mday = 31)
                 => After(i) = [b EXCEPT !.tm_mon = 0, !.tm_mday = 1,
                                         !.tm_year = YearAfterNewYear(b.tm_year)]
              /\ (/\ calls[i].op = "decrement_day" /\ calls[i].quantity = 1
                  /\ b.tm_mon = 0 /\ b.tm_mday = 1)
                 => After(i) = [b EXCEPT !.tm_mon = 11, !.tm_mday = 31,
                                         !.tm_year = YearBeforeNewYear(b.tm_year)]
    /\ d0.tm_year # 0 =>
          /\ tm.tm_year # 0
          /\ \A i \in CallIndexes : calls[i].before.tm_year # 0

C11_Witness ==
    /\ Len(calls) = 2
    /\ calls[1].op = "increment_day"
    /\ calls[1].before.tm_year = -1
    /\ calls[2].op = "decrement_day"
    /\ calls[2].before.tm_year = 1
    /\ tm.tm_year = -1

\* C12: each of the eight operations terminates for every valid record and
\* every int quantity: a negative quantity is handed exactly once to the
\* opposite operation, with the negated quantity, which then runs its branch
\* for a quantity that is not negative; also for the most negative int.
C12_DelegatesOnce ==
    /\ hops <= 1
    /\ (hops = 1 /\ active # <<>>) => active[1].quantity >= 0
    /\ \A i \in CallIndexes : calls[i].op # "trap"

\* C14: from a record validate_date accepts, every sequence of the eight
\* operations leaves a record validate_date accepts, and the default branch
\* of the month switch is never taken (the month stays in 0..11).
C14_ValidityPreserved ==
    validate_date(d0) =>
        /\ validate_date(tm)
        /\ tm.tm_mon \in 0 .. 11

-----------------------------------------------------------------------------
(* validate_date against the Validator's contract.                         *)

ValidPerContract(r) ==
    /\ r.tm_year # -1900
    /\ 0 <= r.tm_mon /\ r.tm_mon <= 11
    /\ 0 <= r.tm_hour /\ r.tm_hour <= 23
    /\ 0 <= r.tm_min /\ r.tm_min <= 59
    /\ 0 <= r.tm_sec /\ r.tm_sec <= 59
    /\ 1 <= r.tm_mday /\ r.tm_mday <= GregMonthLen(r)

\* C5: validate_date returns true exactly for the records with tm_year # -1900,
\* month 0..11, hour 0..23, minute and second 0..59 (second 60 rejected) and
\* day between 1 and the length of the month, February having 29 days iff
\* tm_year + 1900 is a leap year; it reads the month-length table only at an
\* index 0..11.
C5_Validate ==
    verdict # <<>> =>
        /\ verdict[1].result = ValidPerContract(arg_check_tm)
        /\ verdict[1].reads \subseteq 0 .. 11

C5_Witness ==
    /\ verdict # <<>>
    /\ verdict[1].result
    /\ arg_check_tm.tm_mon = 1
    /\ arg_check_tm.tm_mday = 29
    /\ arg_check_tm.tm_year = 100

-----------------------------------------------------------------------------
(* The comparator against elapsed time.                                    *)

Elapsed == TimeGm(arg_second) - TimeGm(arg_first)

\* C6: for two valid records less than 24 hours apart, on the same or on
\* adjacent days, tm_intraday_secs_diff(a, b) is the signed number of seconds
\* from a to b.
C6_IntradayDiff ==
    (/\ difference # <<>>
     /\ -secs_in_day < Elapsed
     /\ Elapsed < secs_in_day)
    => difference[1] = Elapsed

C6_Witness ==
    /\ difference = <<7200>>
    /\ arg_first.tm_hour = 23
    /\ arg_second.tm_hour = 1
    /\ arg_first.tm_year = 99
    /\ arg_second.tm_year = 100

\* C9: tm_intraday_secs_diff(first, second) is positive when first is earlier
\* than second, negative when second is earlier than first, 0 when they are
\* equal, also for records 24 hours or more apart.
C9_DiffSign ==
    (compare_result # <<>> /\ difference # <<>>) =>
        /\ compare_result[1] = -1 => difference[1] > 0
        /\ compare_result[1] = 1 => difference[1] < 0
        /\ compare_result[1] = 0 => difference[1] = 0

-----------------------------------------------------------------------------
(* get_utc_timestamp against what the platform answered.                   *)

LogIndexes == 1 .. Len(log)

PlatformFailed == \E i \in LogIndexes : ~log[i].answer.ok

Disagrees(i) ==
    /\ i \in LogIndexes
    /\ log[i].call = "gmtime"
    /\ log[i].answer.ok
    /\ log[i].answer.value # 0

Agrees(i) ==
    /\ i \in LogIndexes
    /\ log[i].call = "gmtime"
    /\ log[i].answer.ok
    /\ log[i].answer.value = 0

(* The corrected timestamp and both of its one-second neighbours disagree. *)
ThreeDisagree ==
    \E i \in LogIndexes :
        /\ Disagrees(i) /\ Disagrees(i + 1) /\ Disagrees(i + 2)
        /\ log[i + 1].arg = log[i].arg + one_sec
        /\ log[i + 2].arg = log[i].arg - one_sec
        /\ \E j \in 1 .. i : log[j].call = "get_sec_diff" /\ log[j].answer.ok

\* C7: whenever get_utc_timestamp returns a timestamp for a valid requested
\* record, decomposing it through gmtime reproduces the requested record in
\* all six fields, on every platform.
C7_Reproduces ==
    pc = "SUCCESS" => Gmtime(plat, utc_ts) = utc_tm

\* C8: get_utc_timestamp ends in FATAL only when mktime, gmtime or the
\* calibration of the one-second unit fails, or when the corrected timestamp
\* and both of its one-second neighbours give a nonzero secs_diff; a
\* verification that gives secs_diff = 0 ends the run in SUCCESS with the
\* timestamp that was verified.
C8_FatalOnly ==
    /\ pc = "FATAL" => (PlatformFailed \/ ThreeDisagree)
    /\ (PlatformFailed \/ ThreeDisagree) => pc = "FATAL"
    /\ (\E i \in LogIndexes : Agrees(i)) => pc = "SUCCESS"
    /\ pc = "SUCCESS" => Agrees(Len(log)) /\ utc_ts = log[Len(log)].arg

C8_Witness ==
    /\ pc = "FATAL"
    /\ ThreeDisagree
    /\ ~PlatformFailed

-----------------------------------------------------------------------------
(* The order of a run of get_utc_timestamp, read off the platform calls.   *)

CallOrder == <<"mktime", "gmtime", "get_sec_diff", "gmtime", "gmtime", "gmtime">>

Nonzero(i) == log[i].answer.ok /\ log[i].answer.value # 0

Approximate == log[1].answer.value

Adjusted == Approximate - one_sec * log[2].answer.value

(* The state the run is in after the calls of the log.                     *)
StateAfterLog ==
    LET n == Len(log)
    IN  IF n = 0 THEN {"INITIAL_CONVERT"}
        ELSE IF ~log[n].answer.ok THEN {"FATAL"}
        ELSE IF n = 1 THEN {"VERIFY"}
        ELSE IF n = 3 THEN {"VERIFY2"}
        ELSE IF log[n].answer.value = 0 THEN {"SUCCESS"}
        ELSE IF n = 2 THEN {"CORRECT_BY_DIFF"}
        ELSE IF n = 4 THEN {"PROBE_NEIGHBORS"}
        ELSE IF n = 5 THEN {"PROBE_NEIGHBORS", "PROBE_MINUS"}
        ELSE {"FATAL"}

RunInOrder ==
    LET n == Len(log)
    IN  /\ n <= Len(CallOrder)
        /\ \A i \in 1 .. n : log[i].call = CallOrder[i]
        /\ pc \in StateAfterLog
        /\ n >= 2 => log[2].arg = Approximate
        /\ n >= 3 => Nonzero(2)
        /\ n >= 4 => log[4].arg = Adjusted
        /\ n >= 5 => Nonzero(4) /\ log[5].arg = Adjusted + one_sec
        /\ n >= 6 => Nonzero(5) /\ log[6].arg = Adjusted - one_sec
        /\ Cardinality({i \in 1 .. n : log[i].call = "mktime"}) <= 1
        /\ Cardinality({i \in 1 .. n : log[i].call = "gmtime"}) <= 4
        /\ pc = "SUCCESS" =>
              \/ utc_ts = Approximate
              \/ n >= 4 /\ utc_ts \in {Adjusted, Adjusted + one_sec,
                                       Adjusted - one_sec}

\* C13: every run of get_utc_timestamp goes INITIAL_CONVERT, VERIFY, then
\* only after a nonzero first secs_diff CORRECT_BY_DIFF and VERIFY2, then only
\* after a nonzero second secs_diff PROBE_NEIGHBORS, the +1-second neighbour
\* before the -1-second neighbour and the latter only when the former
\* disagrees; it reaches SUCCESS or FATAL after at most one mktime of the
\* input and at most four gmtime calls, does not calibrate when the first
\* secs_diff is 0, and returns the approximate timestamp, the adjusted one,
\* or the adjusted one plus or minus one second.
\* Reaching SUCCESS or FATAL: every step makes one more platform call, a run
\* makes at most six, and a run that is in neither state can take a step.
C13_RunOrder ==
    /\ [](RunInOrder)
    /\ [](pc \notin {"SUCCESS", "FATAL"} => ENABLED NextUtc)
    /\ [][Len(log') = Len(log) + 1]_vars

C13_Witness ==
    /\ pc = "SUCCESS"
    /\ Len(log) = 6
    /\ utc_ts = Adjusted - one_sec

-----------------------------------------------------------------------------
(* check_utc_timestamp: the flag it returns against the difference it      *)
(* stores.                                                                 *)

\* C15: check_utc_timestamp returns agrees = true exactly when it stores
\* secs_diff = 0: agrees = false always comes with a nonzero secs_diff, so a
\* zero secs_diff (the test get_utc_timestamp applies to the result of
\* get_utc_timestamp_sec_diff) means the decomposed record and the expected
\* record are EQUAL under tm_compare.
C15_AgreesIffZero ==
    (checked # <<>> /\ checked[1].ok) =>
        /\ checked[1].agrees <=> checked[1].secs_diff = 0
        /\ get_utc_timestamp_sec_diff(plat, arg_check_time, arg_check_tm,
                                      TRUE).value = 0
             => tm_compare(arg_check_tm, Gmtime(plat, arg_check_time)) = 0

====
